---- MODULE Spec2Model ----
(***************************************************************************)
(* Model of protocol/src/fixed_codec/primitive.rs: the FixedCodec          *)
(* implementations for bool, u8, u32, u64, String and Bytes, and the RLP   *)
(* adapters for Hex, Hash, Address, ValidatorExtend and Metadata.          *)
(*                                                                         *)
(* A byte buffer is a sequence of naturals in 0..255.  A String is the     *)
(* sequence of its UTF-8 bytes.  TLC integers are 32 bits wide, so a u32   *)
(* is held as 2 and a u64 as 4 limbs of 16 bits, least significant limb    *)
(* first: <<lo, hi>> stands for hi * 65536 + lo.                           *)
(***************************************************************************)
EXTENDS Naturals, Sequences, FiniteSets, TLC

VARIABLES ty, src, value, trail, buf, res, pc

vars == <<ty, src, value, trail, buf, res, pc>>

----------------------------------------------------------------------------
(* Bounds of the explored inputs *)

MaxRawLen == 3
MaxFillLen == 9
MaxTrail == 2
MaxVerifiers == 2
MaxListLen == 5
MaxExtra == 2

----------------------------------------------------------------------------
(* Results: ProtocolResult<T> / Result<T, rlp::DecoderError>, or a panic *)

Ok(v) == [tag |-> "Ok", val |-> v]
Err(e) == [tag |-> "Err", err |-> e]
Panic == [tag |-> "Panic"]
NoResult == [tag |-> "None"]

IsOk(r) == r.tag = "Ok"
IsErr(r) == r.tag = "Err"

----------------------------------------------------------------------------
(* Sequence helpers *)

Take(s, n) == SubSeq(s, 1, n)
Drop(s, n) == SubSeq(s, n + 1, Len(s))
Reverse(s) == [i \in 1..Len(s) |-> s[Len(s) + 1 - i]]

\* the element of a singleton; The({e : x \in {v}}) is e with x bound to v
The(S) == CHOOSE x \in S : TRUE

RECURSIVE Fill(_, _)
Fill(b, n) == IF n = 0 THEN <<>> ELSE <<b>> \o Fill(b, n - 1)

RECURSIVE Flatten(_)
Flatten(ss) == IF ss = <<>> THEN <<>> ELSE Head(ss) \o Flatten(Tail(ss))

----------------------------------------------------------------------------
(* Integers as 16-bit limbs *)

\* n.to_be_bytes(): the n bytes of v, most significant byte first
to_be_bytes(v, n) == [i \in 1..n |->
    LET limb == v[((n - i) \div 2) + 1]
    IN  IF (n - i) % 2 = 0 THEN limb % 256 ELSE limb \div 256]

\* n.to_le_bytes(): the n bytes of v, least significant byte first
to_le_bytes(v, n) == [i \in 1..n |->
    LET limb == v[((i - 1) \div 2) + 1]
    IN  IF (i - 1) % 2 = 0 THEN limb % 256 ELSE limb \div 256]

\* uN::from_le_bytes(b): the limbs of the n-byte little-endian buffer b
from_le_bytes(b, n) == [k \in 1..(n \div 2) |-> b[2 * k - 1] + 256 * b[2 * k]]

\* byteorder: LittleEndian::write_u32(&mut buf, n) over a 4-byte buffer
write_u32(v) == to_le_bytes(v, 4)

\* variant: the eight bytes written most significant first
write_u64_be(v) == to_be_bytes(v, 8)

\* byteorder: LittleEndian::write_u64(&mut buf, n) over an 8-byte buffer
write_u64(v) == to_le_bytes(v, 8)

\* variant: the four bytes read most significant first
read_u32_be(b) ==
    IF Len(b) < 4 THEN Panic ELSE Ok(from_le_bytes(Reverse(Take(b, 4)), 4))

\* byteorder: LittleEndian::read_u32(buf) reads buf[..4] and panics when the
\* slice is shorter than 4 bytes
read_u32(b) == IF Len(b) < 4 THEN Panic ELSE Ok(from_le_bytes(Take(b, 4), 4))

\* variant: a buffer longer than 8 bytes is refused as a short one is
read_u64_exact(b) ==
    IF Len(b) # 8 THEN Panic ELSE Ok(from_le_bytes(Take(b, 8), 8))

\* byteorder: LittleEndian::read_u64(buf) reads buf[..8] and panics when the
\* slice is shorter than 8 bytes
read_u64(b) == IF Len(b) < 8 THEN Panic ELSE Ok(from_le_bytes(Take(b, 8), 8))

----------------------------------------------------------------------------
(* std: String::from_utf8 accepts exactly the well-formed UTF-8 sequences *)

InRange(b, lo, hi) == lo <= b /\ b <= hi
Cont(b) == InRange(b, 128, 191)

\* length of the well-formed scalar at the head of b, 0 when there is none
Utf8Width(b) ==
    LET n == Len(b)
        b1 == b[1]
    IN  IF b1 <= 127 THEN 1
        ELSE IF InRange(b1, 194, 223)
             THEN IF n >= 2 /\ Cont(b[2]) THEN 2 ELSE 0
        ELSE IF InRange(b1, 224, 239)
             THEN IF /\ n >= 3
                     /\ Cont(b[3])
                     /\ IF b1 = 224 THEN InRange(b[2], 160, 191)
                        ELSE IF b1 = 237 THEN InRange(b[2], 128, 159)
                        ELSE Cont(b[2])
                  THEN 3 ELSE 0
        ELSE IF InRange(b1, 240, 244)
             THEN IF /\ n >= 4
                     /\ Cont(b[3])
                     /\ Cont(b[4])
                     /\ IF b1 = 240 THEN InRange(b[2], 144, 191)
                        ELSE IF b1 = 244 THEN InRange(b[2], 128, 143)
                        ELSE Cont(b[2])
                  THEN 4 ELSE 0
        ELSE 0

RECURSIVE from_utf8(_)
from_utf8(b) ==
    IF b = <<>> THEN TRUE
    ELSE The({IF w = 0 THEN FALSE ELSE from_utf8(Drop(b, w)) : w \in {Utf8Width(b)}})

----------------------------------------------------------------------------
(* impl FixedCodec for bool *)

bool_encode_fixed(v) == Ok(IF v THEN <<1>> ELSE <<0>>)

\* variant: every non-zero first byte decodes to true
bool_decode_fixed_nonzero(bytes) ==
    IF Len(bytes) = 0 THEN Err("DecodeBool")
    ELSE IF bytes[1] = 0 THEN Ok(FALSE) ELSE Ok(TRUE)

bool_decode_fixed(bytes) ==
    IF Len(bytes) = 0 THEN Err("DecodeBool")
    ELSE LET u == bytes[1]
         IN  IF u = 0 THEN Ok(FALSE)
             ELSE IF u = 1 THEN Ok(TRUE)
             ELSE Err("DecodeBool")

(* impl FixedCodec for u8 *)

u8_encode_fixed(v) == Ok(<<v>>)

u8_decode_fixed(bytes) ==
    IF Len(bytes) = 0 THEN Err("DecodeUint8") ELSE Ok(bytes[1])

(* impl FixedCodec for u32 *)

u32_encode_fixed(v) == Ok(write_u32(v))

u32_decode_fixed(bytes) == read_u32(bytes)

(* impl FixedCodec for u64 *)

u64_encode_fixed(v) == Ok(write_u64(v))

u64_decode_fixed(bytes) == read_u64(bytes)

(* impl FixedCodec for String *)

String_encode_fixed(v) == Ok(v)

String_decode_fixed(bytes) ==
    IF from_utf8(bytes) THEN Ok(bytes) ELSE Err("StringUTF8")

(* impl FixedCodec for Bytes *)

Bytes_encode_fixed(v) == Ok(v)

Bytes_decode_fixed(bytes) == Ok(bytes)

----------------------------------------------------------------------------
(* crate::types, as far as the codec observes them *)

HashLen == 32
AddressLen == 20

\* "0x"
HexPrefix == <<48, 120>>

IsHexDigit(c) == InRange(c, 48, 57) \/ InRange(c, 97, 102) \/ InRange(c, 65, 70)

Hex_from_string(s) ==
    IF /\ Len(s) >= 2
       /\ Take(s, 2) = HexPrefix
       /\ \A i \in 3..Len(s) : IsHexDigit(s[i])
    THEN Ok(s) ELSE Err("HexPrefix")

Hex_as_string_trim0x(h) == Drop(h, 2)

Hash_from_bytes(b) == IF Len(b) = HashLen THEN Ok(b) ELSE Err("HashLength")

Hash_as_bytes(h) == h

Address_from_bytes(b) == IF Len(b) = AddressLen THEN Ok(b) ELSE Err("AddressLength")

Address_as_bytes(a) == a

----------------------------------------------------------------------------
(* rlp crate: RlpStream *)

\* minimal big-endian bytes of a length
RECURSIVE ToBE(_)
ToBE(n) == IF n = 0 THEN <<>> ELSE ToBE(n \div 256) \o <<n % 256>>

\* BasicEncoder::encode_value: one byte string
encode_value(b) ==
    IF Len(b) = 0 THEN <<128>>
    ELSE IF Len(b) = 1 /\ b[1] < 128 THEN b
    ELSE IF Len(b) <= 55 THEN <<128 + Len(b)>> \o b
    ELSE <<183 + Len(ToBE(Len(b)))>> \o ToBE(Len(b)) \o b

\* begin_list(n) followed by n appended items: the list header over the payload
begin_list(items) ==
    The({IF Len(payload) <= 55 THEN <<192 + Len(payload)>> \o payload
         ELSE <<247 + Len(ToBE(Len(payload)))>> \o ToBE(Len(payload)) \o payload :
         payload \in {Flatten(items)}})

RECURSIVE StripZeros(_)
StripZeros(b) == IF b # <<>> /\ b[1] = 0 THEN StripZeros(Tail(b)) ELSE b

\* impl Encodable for u32 / u64: big-endian bytes without leading zeros
uint_rlp_append(v, width) == encode_value(StripZeros(to_be_bytes(v, width)))

----------------------------------------------------------------------------
(* rlp crate: Rlp, a view over raw bytes *)

is_null(r) == r = <<>>
is_list(r) == ~is_null(r) /\ r[1] >= 192
is_data(r) == ~is_null(r) /\ r[1] < 192

\* decode_usize over the length bytes of a long header; a length of 4 bytes
\* or more exceeds every buffer explored and is reported as 2^24

RECURSIVE FromBE(_)
FromBE(b) == IF b = <<>> THEN 0 ELSE FromBE(Take(b, Len(b) - 1)) * 256 + b[Len(b)]

decode_usize(b) ==
    IF Len(b) > 8 THEN Err("RlpIsTooBig")
    ELSE IF b[1] = 0 THEN Err("RlpInvalidIndirection")
    ELSE IF Len(b) > 3 THEN Ok(16777216)
    ELSE Ok(FromBE(b))

calculate_payload_info(h, len_of_len) ==
    IF Len(h) < 2 THEN Err("RlpIsTooShort")
    ELSE IF h[2] = 0 THEN Err("RlpDataLenWithZeroPrefix")
    ELSE IF Len(h) < 1 + len_of_len THEN Err("RlpIsTooShort")
    ELSE The({IF IsErr(value_len) THEN value_len
              ELSE IF value_len.val <= 55 THEN Err("RlpInvalidIndirection")
              ELSE Ok([header_len |-> 1 + len_of_len, value_len |-> value_len.val]) :
              value_len \in {decode_usize(SubSeq(h, 2, 1 + len_of_len))}})

PayloadInfo_from(h) ==
    IF h = <<>> THEN Err("RlpIsTooShort")
    ELSE LET l == h[1]
         IN  IF l <= 127 THEN Ok([header_len |-> 0, value_len |-> 1])
             ELSE IF l <= 183 THEN Ok([header_len |-> 1, value_len |-> l - 128])
             ELSE IF l <= 191 THEN calculate_payload_info(h, l - 183)
             ELSE IF l <= 247 THEN Ok([header_len |-> 1, value_len |-> l - 192])
             ELSE calculate_payload_info(h, l - 247)

payload_info(b) ==
    The({IF IsErr(item) THEN item
         ELSE IF item.val.header_len + item.val.value_len <= Len(b) THEN item
         ELSE Err("RlpIsTooShort") :
         item \in {PayloadInfo_from(b)}})

\* Rlp::size: the payload length of a data item, 0 for anything else
size(r) ==
    IF is_data(r)
    THEN The({IF IsOk(pi) THEN pi.val.value_len ELSE 0 : pi \in {payload_info(r)}})
    ELSE 0

\* Rlp::data: the payload bytes
data(r) ==
    The({IF IsErr(pi) THEN pi
         ELSE Ok(SubSeq(r, pi.val.header_len + 1,
                        pi.val.header_len + pi.val.value_len)) :
         pi \in {payload_info(r)}})

RECURSIVE consume_items(_, _)
consume_items(b, n) ==
    IF n = 0 THEN Ok(b)
    ELSE The({IF IsErr(i) THEN i
              ELSE consume_items(Drop(b, i.val.header_len + i.val.value_len), n - 1) :
              i \in {payload_info(b)}})

\* Rlp::at(index), index counted from 0: the raw bytes of the element
at(r, index) ==
    IF ~is_list(r) THEN Err("RlpExpectedToBeList")
    ELSE The({IF IsErr(payload) THEN payload
              ELSE The({IF IsErr(rest) THEN rest
                        ELSE The({IF IsErr(found) THEN found
                                  ELSE Ok(Take(rest.val, found.val.header_len
                                                          + found.val.value_len)) :
                                  found \in {payload_info(rest.val)}}) :
                        rest \in {consume_items(payload.val, index)}}) :
              payload \in {data(r)}})

\* Rlp::iter: the elements at 0, 1, ... up to the first index at() rejects
RECURSIVE iter_from(_, _)
iter_from(r, index) ==
    The({IF IsErr(e) THEN <<>> ELSE <<e.val>> \o iter_from(r, index + 1) :
         e \in {at(r, index)}})

iter(r) == iter_from(r, 0)

\* Rlp::item_count
item_count(r) ==
    IF is_list(r) THEN Ok(Len(iter(r))) ELSE Err("RlpExpectedToBeList")

\* BasicDecoder::decode_value: the byte string the closure is applied to
decode_value(b) ==
    IF b = <<>> THEN Err("RlpIsTooShort")
    ELSE IF b[1] <= 127 THEN Ok(<<b[1]>>)
    ELSE IF b[1] <= 183
         THEN IF Len(b) < 1 + b[1] - 128 THEN Err("RlpInconsistentLengthAndData")
              ELSE IF b[1] = 129 /\ b[2] < 128 THEN Err("RlpInvalidIndirection")
              ELSE Ok(SubSeq(b, 2, 1 + b[1] - 128))
    ELSE IF b[1] <= 191
         THEN IF Len(b) < 1 + (b[1] - 183) THEN Err("RlpInconsistentLengthAndData")
              ELSE The({IF IsErr(len) THEN len
                        ELSE IF Len(b) < 1 + (b[1] - 183) + len.val
                        THEN Err("RlpInconsistentLengthAndData")
                        ELSE Ok(SubSeq(b, 2 + (b[1] - 183),
                                       1 + (b[1] - 183) + len.val)) :
                        len \in {decode_usize(SubSeq(b, 2, 1 + (b[1] - 183)))}})
    ELSE Err("RlpExpectedToBeData")

\* impl Decodable for u8
u8_rlp_decode(r) ==
    The({IF IsErr(d) THEN d
         ELSE IF Len(d.val) = 1 /\ d.val[1] # 0 THEN Ok(d.val[1])
         ELSE IF Len(d.val) = 0 THEN Ok(0)
         ELSE IF Len(d.val) = 1 THEN Err("RlpInvalidIndirection")
         ELSE Err("RlpIsTooBig") :
         d \in {decode_value(r)}})

\* impl Decodable for u32 / u64 (width 4 / 8), the result in limbs
uint_rlp_decode(r, width) ==
    The({IF IsErr(d) THEN d
         ELSE IF Len(d.val) <= 1
              THEN The({IF IsErr(u) THEN u
                        ELSE Ok([k \in 1..(width \div 2) |->
                                    IF k = 1 THEN u.val ELSE 0]) :
                        u \in {u8_rlp_decode(r)}})
         ELSE IF Len(d.val) <= width
              THEN IF d.val[1] = 0 THEN Err("RlpInvalidIndirection")
                   ELSE Ok(from_le_bytes(
                             Reverse(Fill(0, width - Len(d.val)) \o d.val), width))
         ELSE Err("RlpIsTooBig") :
         d \in {decode_value(r)}})

\* impl Decodable for String
String_rlp_decode(r) ==
    The({IF IsErr(d) THEN d
         ELSE IF from_utf8(d.val) THEN Ok(d.val)
         ELSE Err("RlpExpectedToBeData") :
         d \in {decode_value(r)}})

----------------------------------------------------------------------------
(* Sequencing of fallible reads *)

\* the result the first failing `?` returns
FirstErr(f) ==
    f[CHOOSE i \in DOMAIN f :
        IsErr(f[i]) /\ \A j \in DOMAIN f : j < i => ~IsErr(f[j])]

\* index of the first failing read
FirstErrIndex(f) ==
    CHOOSE i \in DOMAIN f :
        IsErr(f[i]) /\ \A j \in DOMAIN f : j < i => ~IsErr(f[j])

AnyErr(f) == \E i \in DOMAIN f : IsErr(f[i])

\* r.at(index)?.data()?
at_data(r, index) ==
    The({IF IsErr(e) THEN e ELSE data(e.val) : e \in {at(r, index)}})

u32_rlp_decode(r) == uint_rlp_decode(r, 4)
u64_rlp_decode(r) == uint_rlp_decode(r, 8)


\* r.at(index)?.as_val::<String>()?
at_String(r, index) ==
    The({IF IsErr(e) THEN e ELSE String_rlp_decode(e.val) : e \in {at(r, index)}})

\* r.at(index)?.as_val::<u32>()?
at_u32(r, index) ==
    The({IF IsErr(e) THEN e ELSE u32_rlp_decode(e.val) : e \in {at(r, index)}})

\* r.at(index)?.as_val::<u64>()?
at_u64(r, index) ==
    The({IF IsErr(e) THEN e ELSE u64_rlp_decode(e.val) : e \in {at(r, index)}})

\* variant: the string written with its "0x" prefix
Hex_rlp_append_untrimmed(h) == begin_list(<<encode_value(h)>>)

Hex_rlp_append(h) == begin_list(<<encode_value(Hex_as_string_trim0x(h))>>)

Hex_decode(r) ==
    The({IF IsErr(s) THEN s
         ELSE IF IsErr(Hex_from_string(HexPrefix \o s.val)) THEN Err("Custom")
         ELSE Hex_from_string(HexPrefix \o s.val) :
         s \in {at_String(r, 0)}})

\* r.at(index)?.as_val::<Hex>()?
at_Hex(r, index) ==
    The({IF IsErr(e) THEN e ELSE Hex_decode(e.val) : e \in {at(r, index)}})

(* impl rlp::Encodable / rlp::Decodable for Hash *)

Hash_rlp_append(h) == begin_list(<<encode_value(Hash_as_bytes(h))>>)

Hash_decode(r) ==
    The({IF IsErr(d) THEN d
         ELSE IF IsErr(Hash_from_bytes(d.val)) THEN Err("RlpInvalidLength")
         ELSE Hash_from_bytes(d.val) :
         d \in {at_data(r, 0)}})

\* r.at(index)?.as_val::<Hash>()?
at_Hash(r, index) ==
    The({IF IsErr(e) THEN e ELSE Hash_decode(e.val) : e \in {at(r, index)}})

(* impl rlp::Encodable / rlp::Decodable for Address *)

Address_rlp_append(a) == begin_list(<<encode_value(Address_as_bytes(a))>>)

Address_decode(r) ==
    The({IF IsErr(d) THEN d
         ELSE IF IsErr(Address_from_bytes(d.val)) THEN Err("RlpInvalidLength")
         ELSE Address_from_bytes(d.val) :
         d \in {at_data(r, 0)}})

\* r.at(index)?.as_val::<Address>()?
at_Address(r, index) ==
    The({IF IsErr(e) THEN e ELSE Address_decode(e.val) : e \in {at(r, index)}})

(* impl rlp::Encodable / rlp::Decodable for ValidatorExtend *)

\* the items appended after begin_list(4), in order
ValidatorExtend_items(v) ==
    <<Hex_rlp_append(v.bls_pub_key),
      Address_rlp_append(v.address),
      uint_rlp_append(v.propose_weight, 4),
      uint_rlp_append(v.vote_weight, 4)>>

ValidatorExtend_rlp_append(v) == begin_list(ValidatorExtend_items(v))

\* the four positional reads, in the order the decoder makes them
ValidatorExtend_fields(r) ==
    [i \in 0..3 |->
        CASE i = 0 -> at_Hex(r, 0)
          [] i = 1 -> at_Address(r, 1)
          [] i = 2 -> at_u32(r, 2)
          [] i = 3 -> at_u32(r, 3)]

ValidatorExtend_decode(r) ==
    IF ~is_list(r) /\ size(r) # 4 THEN Err("RlpIncorrectListLen")
    ELSE The({IF AnyErr(f) THEN FirstErr(f)
              ELSE Ok([bls_pub_key |-> f[0].val,
                       address |-> f[1].val,
                       propose_weight |-> f[2].val,
                       vote_weight |-> f[3].val]) :
              f \in {ValidatorExtend_fields(r)}})

(* impl rlp::Encodable / rlp::Decodable for Metadata *)

\* append_list(&self.verifier_list): a list of the encoded validators
append_list(vl) ==
    begin_list([k \in 1..Len(vl) |-> ValidatorExtend_rlp_append(vl[k])])

\* variant: cycles_limit written before timeout_gap
Metadata_items_swapped(m) ==
    <<Hash_rlp_append(m.chain_id),
      Hex_rlp_append(m.common_ref),
      uint_rlp_append(m.cycles_limit, 8),
      uint_rlp_append(m.timeout_gap, 8),
      uint_rlp_append(m.cycles_price, 8),
      uint_rlp_append(m.interval, 8),
      append_list(m.verifier_list),
      uint_rlp_append(m.propose_ratio, 8),
      uint_rlp_append(m.prevote_ratio, 8),
      uint_rlp_append(m.precommit_ratio, 8),
      uint_rlp_append(m.brake_ratio, 8),
      uint_rlp_append(m.tx_num_limit, 8),
      uint_rlp_append(m.max_tx_size, 8)>>

\* the items appended after begin_list(13), in order
Metadata_items(m) ==
    <<Hash_rlp_append(m.chain_id),
      Hex_rlp_append(m.common_ref),
      uint_rlp_append(m.timeout_gap, 8),
      uint_rlp_append(m.cycles_limit, 8),
      uint_rlp_append(m.cycles_price, 8),
      uint_rlp_append(m.interval, 8),
      append_list(m.verifier_list),
      uint_rlp_append(m.propose_ratio, 8),
      uint_rlp_append(m.prevote_ratio, 8),
      uint_rlp_append(m.precommit_ratio, 8),
      uint_rlp_append(m.brake_ratio, 8),
      uint_rlp_append(m.tx_num_limit, 8),
      uint_rlp_append(m.max_tx_size, 8)>>

Metadata_rlp_append(m) == begin_list(Metadata_items(m))

\* r.as_list::<ValidatorExtend>(): every element of iter() decoded, the
\* first error returned
verifier_list_decode(r) ==
    The({IF AnyErr(rs) THEN FirstErr(rs)
         ELSE Ok([k \in DOMAIN rs |-> rs[k].val]) :
         rs \in {[k \in 1..Len(iter(r)) |-> ValidatorExtend_decode(iter(r)[k])]}})

\* r.at(index)?.as_list::<ValidatorExtend>()?
at_verifier_list(r, index) ==
    The({IF IsErr(e) THEN e ELSE verifier_list_decode(e.val) : e \in {at(r, index)}})

\* the thirteen positional reads, in the order the decoder makes them
Metadata_fields(r) ==
    [i \in 0..12 |->
        CASE i = 0 -> at_Hash(r, 0)
          [] i = 1 -> at_Hex(r, 1)
          [] i = 6 -> at_verifier_list(r, 6)
          [] OTHER -> at_u64(r, i)]

Metadata_decode(r) ==
    The({IF AnyErr(f) THEN FirstErr(f)
         ELSE Ok([chain_id |-> f[0].val,
                  common_ref |-> f[1].val,
                  timeout_gap |-> f[2].val,
                  cycles_limit |-> f[3].val,
                  cycles_price |-> f[4].val,
                  interval |-> f[5].val,
                  verifier_list |-> f[6].val,
                  propose_ratio |-> f[7].val,
                  prevote_ratio |-> f[8].val,
                  precommit_ratio |-> f[9].val,
                  brake_ratio |-> f[10].val,
                  tx_num_limit |-> f[11].val,
                  max_tx_size |-> f[12].val]) :
         f \in {Metadata_fields(r)}})

----------------------------------------------------------------------------
(* The values and buffers the operations are applied to *)

FixedTypes == {"bool", "u8", "u32", "u64", "String", "Bytes"}
RlpTypes == {"Hex", "Hash", "Address", "ValidatorExtend", "Metadata"}

U8Values == {0, 1, 2, 127, 128, 255}

\* 0, 1, 10, 20, 255, 256, 65536, 0x12345678, 0x80000000, 0xFFFFFFFF
U32Values == {<<0, 0>>, <<1, 0>>, <<10, 0>>, <<20, 0>>, <<255, 0>>, <<256, 0>>,
              <<0, 1>>, <<22136, 4660>>, <<0, 32768>>, <<65535, 65535>>}

U64Cycle == << <<0, 0, 0, 0>>, <<1, 0, 0, 0>>, <<255, 0, 0, 0>>, <<256, 0, 0, 0>>,
               <<0, 1, 0, 0>>, <<65535, 65535, 0, 0>>, <<0, 0, 1, 0>>,
               <<22136, 4660, 0, 0>>, <<65535, 65535, 65535, 65535>>,
               <<128, 0, 0, 0>>, <<0, 0, 0, 32768>>, <<127, 0, 0, 0>>,
               <<513, 1027, 1541, 2055>> >>

U64Values == {U64Cycle[i] : i \in DOMAIN U64Cycle}

\* "", "abc", "e-acute", "euro sign", U+1F600, U+D7FF, U+10FFFF
StringValues == {<<>>, <<97, 98, 99>>, <<195, 169>>, <<226, 130, 172>>,
                 <<240, 159, 152, 128>>, <<237, 159, 191>>, <<244, 143, 191, 191>>,
                 <<97, 195, 169, 0, 127>>}

RawBytes == {0, 1, 2, 169, 195, 254, 255}

RawInputs == UNION {[1..n -> RawBytes] : n \in 0..MaxRawLen}

FillInputs == {Fill(b, n) : b \in {1, 255}, n \in 0..MaxFillLen}

BytesValues == RawInputs

\* "0x", "0x7", "0xdeadbeef", "0xAb"
HexValues == {<<48, 120>>, <<48, 120, 55>>,
              <<48, 120, 100, 101, 97, 100, 98, 101, 101, 102>>,
              <<48, 120, 65, 98>>}

HashValues == {[i \in 1..HashLen |-> i], [i \in 1..HashLen |-> 256 - i],
               Fill(0, HashLen)}

AddressValues == {[i \in 1..AddressLen |-> 160 + i], Fill(0, AddressLen)}

WeightValues == {<<0, 0>>, <<10, 0>>, <<20, 0>>, <<65535, 65535>>}

ValidatorExtendValues ==
    [bls_pub_key : HexValues, address : AddressValues,
     propose_weight : WeightValues, vote_weight : WeightValues]

\* the validators a verifier_list is drawn from
Verifiers ==
    {[bls_pub_key |-> <<48, 120, 100, 101, 97, 100, 98, 101, 101, 102>>,
      address |-> [i \in 1..AddressLen |-> 160 + i],
      propose_weight |-> <<10, 0>>, vote_weight |-> <<20, 0>>],
     [bls_pub_key |-> <<48, 120, 55>>,
      address |-> Fill(0, AddressLen),
      propose_weight |-> <<65535, 65535>>, vote_weight |-> <<0, 0>>]}

VerifierLists == UNION {[1..n -> Verifiers] : n \in 0..MaxVerifiers}

U64Patterns == {0, 4, 8}

U64At(k, j) == U64Cycle[((j + k) % Len(U64Cycle)) + 1]

MetadataOf(h, x, k, vl) ==
    [chain_id |-> h, common_ref |-> x,
     timeout_gap |-> U64At(k, 0), cycles_limit |-> U64At(k, 1),
     cycles_price |-> U64At(k, 2), interval |-> U64At(k, 3),
     verifier_list |-> vl,
     propose_ratio |-> U64At(k, 4), prevote_ratio |-> U64At(k, 5),
     precommit_ratio |-> U64At(k, 6), brake_ratio |-> U64At(k, 7),
     tx_num_limit |-> U64At(k, 8), max_tx_size |-> U64At(k, 9)]

MetadataValues ==
    {MetadataOf(h, x, k, vl) :
        h \in {[i \in 1..HashLen |-> i], Fill(0, HashLen)},
        x \in {<<48, 120>>, <<48, 120, 100, 101, 97, 100, 98, 101, 101, 102>>},
        k \in U64Patterns, vl \in VerifierLists}

Values(t) ==
    CASE t = "bool" -> BOOLEAN
      [] t = "u8" -> U8Values
      [] t = "u32" -> U32Values
      [] t = "u64" -> U64Values
      [] t = "String" -> StringValues
      [] t = "Bytes" -> BytesValues
      [] t = "Hex" -> HexValues
      [] t = "Hash" -> HashValues
      [] t = "Address" -> AddressValues
      [] t = "ValidatorExtend" -> ValidatorExtendValues
      [] t = "Metadata" -> MetadataValues

\* bytes that follow an encoding in the buffer handed to the decoder
Trails(t) ==
    IF t \in FixedTypes
    THEN UNION {[1..n -> {0, 255}] : n \in 0..MaxTrail}
    ELSE {<<>>}

\* extra list elements: the RLP items of 1, 2, ...
ExtraItems(n) == [k \in 1..n |-> uint_rlp_append(<<k, 0>>, 4)]

\* lists of 0..MaxListLen elements that start as a ValidatorExtend does
ValidatorExtendLists ==
    {begin_list(Take(ValidatorExtend_items(v) \o ExtraItems(MaxListLen), n)) :
        v \in Verifiers, n \in 0..MaxListLen}

\* single data items with a payload of 0..MaxFillLen bytes
DataItems == {encode_value(b) : b \in FillInputs}

\* lists of 0..13+MaxExtra elements that start as a Metadata does
MetadataLists ==
    {begin_list(Take(Metadata_items(MetadataOf(Fill(0, HashLen), <<48, 120, 55>>, k, vl))
                        \o ExtraItems(MaxExtra), n)) :
        k \in {0, 8}, vl \in {<<>>} \cup [1..1 -> Verifiers], n \in 0..(13 + MaxExtra)}

\* one-element lists around a string: "zz", "g1", "dead", "", not UTF-8
HexLists ==
    {begin_list(<<encode_value(str)>>) :
        str \in {<<122, 122>>, <<103, 49>>, <<100, 101, 97, 100>>, <<>>,
                 <<255, 254>>, <<55>>}}

\* one-element lists around 0..HashLen+1 bytes
BytesLists == {begin_list(<<encode_value(Fill(7, n))>>) : n \in 0..(HashLen + 1)}

RawFor(t) ==
    CASE t \in FixedTypes -> RawInputs \cup FillInputs
      [] t = "Hex" -> RawInputs \cup HexLists \cup DataItems
      [] t \in {"Hash", "Address"} -> RawInputs \cup BytesLists
      [] t = "ValidatorExtend" -> RawInputs \cup ValidatorExtendLists \cup DataItems
      [] t = "Metadata" -> RawInputs \cup MetadataLists \cup DataItems

----------------------------------------------------------------------------
(* State machine: a value is encoded and the buffer decoded, or a buffer   *)
(* received from elsewhere is decoded                                      *)

Init ==
    /\ ty \in FixedTypes \cup RlpTypes
    /\ src \in {"value", "raw"}
    /\ res = NoResult
    /\ IF src = "value"
       THEN /\ value \in Values(ty)
            /\ trail \in Trails(ty)
            /\ buf = <<>>
            /\ pc = "value"
       ELSE /\ value = <<>>
            /\ trail = <<>>
            /\ buf \in RawFor(ty)
            /\ pc = "bytes"

\* a value of type t is encoded; the bytes are followed by trail
EncodeStep(t, r) ==
    /\ pc = "value"
    /\ ty = t
    /\ IsOk(r)
    /\ buf' = r.val \o trail
    /\ pc' = "bytes"
    /\ UNCHANGED <<ty, src, value, trail, res>>

\* the buffer is decoded as a value of type t
DecodeStep(t, r) ==
    /\ pc = "bytes"
    /\ ty = t
    /\ res' = r
    /\ pc' = "done"
    /\ UNCHANGED <<ty, src, value, trail, buf>>

BoolEncode == EncodeStep("bool", bool_encode_fixed(value))
BoolDecode == DecodeStep("bool", bool_decode_fixed(buf))
U8Encode == EncodeStep("u8", u8_encode_fixed(value))
U8Decode == DecodeStep("u8", u8_decode_fixed(buf))
U32Encode == EncodeStep("u32", u32_encode_fixed(value))
U32Decode == DecodeStep("u32", u32_decode_fixed(buf))
U64Encode == EncodeStep("u64", u64_encode_fixed(value))
U64Decode == DecodeStep("u64", u64_decode_fixed(buf))
StringEncode == EncodeStep("String", String_encode_fixed(value))
StringDecode == DecodeStep("String", String_decode_fixed(buf))
BytesEncode == EncodeStep("Bytes", Bytes_encode_fixed(value))
BytesDecode == DecodeStep("Bytes", Bytes_decode_fixed(buf))
HexEncode == EncodeStep("Hex", Ok(Hex_rlp_append(value)))
HexDecode == DecodeStep("Hex", Hex_decode(buf))
HashEncode == EncodeStep("Hash", Ok(Hash_rlp_append(value)))
HashDecode == DecodeStep("Hash", Hash_decode(buf))
AddressEncode == EncodeStep("Address", Ok(Address_rlp_append(value)))
AddressDecode == DecodeStep("Address", Address_decode(buf))
ValidatorExtendEncode ==
    EncodeStep("ValidatorExtend", Ok(ValidatorExtend_rlp_append(value)))
ValidatorExtendDecode == DecodeStep("ValidatorExtend", ValidatorExtend_decode(buf))
MetadataEncode == EncodeStep("Metadata", Ok(Metadata_rlp_append(value)))
MetadataDecode == DecodeStep("Metadata", Metadata_decode(buf))

Next ==
    \/ BoolEncode \/ BoolDecode
    \/ U8Encode \/ U8Decode
    \/ U32Encode \/ U32Decode
    \/ U64Encode \/ U64Decode
    \/ StringEncode \/ StringDecode
    \/ BytesEncode \/ BytesDecode
    \/ HexEncode \/ HexDecode
    \/ HashEncode \/ HashDecode
    \/ AddressEncode \/ AddressDecode
    \/ ValidatorExtendEncode \/ ValidatorExtendDecode
    \/ MetadataEncode \/ MetadataDecode

Spec == Init /\ [][Next]_vars

----------------------------------------------------------------------------
(* Properties *)

Width(t) == CASE t = "u8" -> 1 [] t = "u32" -> 4 [] t = "u64" -> 8

\* v div 256 over limbs
Shr8(v) ==
    [k \in 1..Len(v) |->
        (v[k] \div 256) + (IF k < Len(v) THEN (v[k + 1] % 256) * 256 ELSE 0)]

RECURSIVE DivPow256(_, _)
DivPow256(v, i) == IF i = 0 THEN v ELSE DivPow256(Shr8(v), i - 1)

\* (v div 256^i) mod 256
ByteOf(v, i) == DivPow256(v, i)[1] % 256

Encoded == src = "value" /\ pc = "bytes"
RoundTripped == src = "value" /\ pc = "done"
Decoded == pc = "done"

\* C1: every value of bool, u8, u32, u64, String and Bytes is encoded
\* successfully by encode_fixed, and decode_fixed of exactly those bytes
\* returns Ok with the original value.
C1_FixedRoundTrip ==
    /\ (src = "value" /\ pc = "value" /\ ty \in FixedTypes) => ENABLED Next
    /\ (RoundTripped /\ ty \in FixedTypes /\ trail = <<>>) => res = Ok(value)

C1_Witness ==
    RoundTripped /\ ty = "u32" /\ trail = <<>> /\ value = <<22136, 4660>>
    /\ res = Ok(value)

\* C2: decode_fixed for u32 (u64) on an input shorter than 4 (8) bytes
\* returns a decode error as its result; it neither panics nor returns Ok.
C2_ShortInputIsError ==
    /\ (Decoded /\ ty = "u32" /\ Len(buf) < 4) => IsErr(res)
    /\ (Decoded /\ ty = "u64" /\ Len(buf) < 8) => IsErr(res)

\* C3: decoding a ValidatorExtend from an RLP list whose element count is
\* not 4 fails with IncorrectListLen and with no other error.
C3_WrongArityIsIncorrectListLen ==
    (Decoded /\ ty = "ValidatorExtend" /\ is_list(buf)
        /\ item_count(buf) # Ok(4))
    => res = Err("RlpIncorrectListLen")

\* C4: decoding a ValidatorExtend from an RLP input that is a single data
\* item, of any payload length, fails with IncorrectListLen.
C4_NonListIsIncorrectListLen ==
    (Decoded /\ ty = "ValidatorExtend" /\ is_data(buf))
    => res = Err("RlpIncorrectListLen")

\* C5: decoding a Metadata from an RLP list of n # 13 elements returns an
\* error: for n < 13 the first failing read is that of index n when the
\* elements 0..n-1 decode, and for n > 13 the list is rejected.
C5_WrongArityIsError ==
    (Decoded /\ ty = "Metadata" /\ is_list(buf) /\ item_count(buf) # Ok(13))
    => /\ IsErr(res)
       /\ LET n == item_count(buf).val
              f == Metadata_fields(buf)
          IN  (n < 13 /\ \A j \in 0..(n - 1) : IsOk(f[j]))
                  => FirstErrIndex(f) = n

\* C6: bool::decode_fixed is decided by the first input byte alone: empty
\* input and a first byte of 2..255 give DecodeBool, 0 gives false and 1
\* gives true; bool::encode_fixed emits exactly one byte, 0 or 1.
C6_BoolFirstByte ==
    /\ (Decoded /\ ty = "bool") =>
          res = IF buf = <<>> THEN Err("DecodeBool")
                ELSE IF buf[1] = 0 THEN Ok(FALSE)
                ELSE IF buf[1] = 1 THEN Ok(TRUE)
                ELSE Err("DecodeBool")
    /\ (Encoded /\ ty = "bool") =>
          /\ Len(buf) = 1 + Len(trail)
          /\ buf[1] = IF value THEN 1 ELSE 0

C6_Witness ==
    Decoded /\ ty = "bool" /\ Len(buf) = 3 /\ buf[1] = 1 /\ buf[2] = 255
    /\ res = Ok(TRUE)

\* C7: encode_fixed of a u32 (u64) is exactly 4 (8) bytes, byte i being
\* (v div 256^i) mod 256; 0 gives zero bytes, the maximum gives 0xFF bytes
\* and 0x12345678 gives 78 56 34 12.
C7_LittleEndian ==
    (Encoded /\ ty \in {"u32", "u64"}) =>
        /\ Len(buf) = Width(ty) + Len(trail)
        /\ \A i \in 0..(Width(ty) - 1) : buf[i + 1] = ByteOf(value, i)
        /\ (\A k \in DOMAIN value : value[k] = 0)
              => Take(buf, Width(ty)) = Fill(0, Width(ty))
        /\ (\A k \in DOMAIN value : value[k] = 65535)
              => Take(buf, Width(ty)) = Fill(255, Width(ty))
        /\ (value = <<22136, 4660>>) => Take(buf, 4) = <<120, 86, 52, 18>>

C7_Witness ==
    Encoded /\ ty = "u64" /\ value = <<22136, 4660, 0, 0>>
    /\ Take(buf, 8) = <<120, 86, 52, 18, 0, 0, 0, 0>>

\* C8: a Metadata value is written as a list of 13 elements holding its
\* fields in declaration order, each ValidatorExtend as a list of 4, and
\* decoding the encoding returns the original value.
C8_StructRoundTrip ==
    /\ (RoundTripped /\ ty \in {"Metadata", "ValidatorExtend"}) => res = Ok(value)
    /\ (Encoded /\ ty = "Metadata") =>
          /\ item_count(buf) = Ok(13)
          /\ at_Hash(buf, 0) = Ok(value.chain_id)
          /\ at_Hex(buf, 1) = Ok(value.common_ref)
          /\ at_u64(buf, 2) = Ok(value.timeout_gap)
          /\ at_u64(buf, 3) = Ok(value.cycles_limit)
          /\ at_u64(buf, 4) = Ok(value.cycles_price)
          /\ at_u64(buf, 5) = Ok(value.interval)
          /\ item_count(at(buf, 6).val) = Ok(Len(value.verifier_list))
          /\ at_u64(buf, 7) = Ok(value.propose_ratio)
          /\ at_u64(buf, 8) = Ok(value.prevote_ratio)
          /\ at_u64(buf, 9) = Ok(value.precommit_ratio)
          /\ at_u64(buf, 10) = Ok(value.brake_ratio)
          /\ at_u64(buf, 11) = Ok(value.tx_num_limit)
          /\ at_u64(buf, 12) = Ok(value.max_tx_size)
    /\ (Encoded /\ ty = "ValidatorExtend") =>
          /\ item_count(buf) = Ok(4)
          /\ at_Hex(buf, 0) = Ok(value.bls_pub_key)
          /\ at_Address(buf, 1) = Ok(value.address)
          /\ at_u32(buf, 2) = Ok(value.propose_weight)
          /\ at_u32(buf, 3) = Ok(value.vote_weight)

C8_Witness ==
    RoundTripped /\ ty = "Metadata" /\ Len(value.verifier_list) = 2
    /\ value.verifier_list[1] # value.verifier_list[2]
    /\ value.timeout_gap # value.cycles_limit
    /\ res = Ok(value)

\* C9: a Hex is written as a list of one element, its string without the
\* leading "0x"; decoding the encoding returns the Hex with "0x" restored;
\* when "0x" followed by the element is not a Hex, decoding returns the
\* Custom error.
C9_HexRoundTrip ==
    /\ (Encoded /\ ty = "Hex") =>
          /\ item_count(buf) = Ok(1)
          /\ at_String(buf, 0) = Ok(Drop(value, 2))
    /\ (RoundTripped /\ ty = "Hex") =>
          /\ res = Ok(value)
          /\ Take(res.val, 2) = HexPrefix
    /\ (Decoded /\ ty = "Hex") =>
          LET str == at_String(buf, 0)
          IN  (IsOk(str) /\ IsErr(Hex_from_string(HexPrefix \o str.val)))
                  => res = Err("Custom")

C9_Witness ==
    RoundTripped /\ ty = "Hex"
    /\ value = <<48, 120, 100, 101, 97, 100, 98, 101, 101, 102>>
    /\ at_String(buf, 0)
           = Ok(<<100, 101, 97, 100, 98, 101, 101, 102>>)
    /\ res = Ok(value)

\* C10: decode_fixed of a u8, u32 or u64 encoding followed by any bytes
\* returns Ok with the encoded value.
C10_TrailingBytesIgnored ==
    (RoundTripped /\ ty \in {"u8", "u32", "u64"}) => res = Ok(value)

C10_Witness ==
    RoundTripped /\ ty = "u64" /\ Len(trail) = MaxTrail
    /\ Len(buf) = 8 + MaxTrail /\ res = Ok(value)

====
